---- MODULE Spec2Model ----
(***************************************************************************)
(* The retrieval / grading / generation control loop of the X (Twitter)    *)
(* trend agent: the LangGraph workflow built by create_workflow            *)
(* (app/utils.py) over the nodes of GraphNodes (twitter_server/nodes.py)   *)
(* and the conditional edges of EdgeGraph (twitter_server/edges.py).       *)
(*                                                                         *)
(* One session is modelled.  `state` is the graph state dict threaded      *)
(* through the nodes, `pc` is the node the workflow runs next.  One action *)
(* stands for one node together with the edge evaluated after it.  The     *)
(* external collaborators (Fetcher, graders, generator, rewriter) are      *)
(* oracles: their results are drawn with \E from small sets.               *)
(*                                                                         *)
(* Spec is the workflow of one session.  NodeSpec calls each node function *)
(* once on an arbitrary state dict, PipelineSpec calls the fetch pipeline  *)
(* once on an arbitrary keyword list, and TwoSpec interleaves the node     *)
(* calls of two sessions that share the compiled workflow.                 *)
(***************************************************************************)
EXTENDS Integers, Sequences, FiniteSets, TLC

\* ------------------------------------------------------------------ bounds
NumChunks == 2          \* distinct chunks the retriever can return
MaxDocs == 2            \* longest retrieved document list
NumQuestions == 2       \* distinct question texts
MaxRetry == 4           \* cap on retry_count explored (the code has none)
MaxStreak == 4          \* saturation of the consecutive-generate counter
MaxKeywords == 3        \* longest keyword list given to twitter_detail_pipeline
MaxSessionRetry == 1    \* cap on retry_count explored when two sessions run

\* ------------------------------------------------------- program constants
RetryBound == 3         \* the "/3" printed by transform_query

\* ---------------------------------------------------------------- universes
Chunks == 1..NumChunks
Questions == 1..NumQuestions

RECURSIVE SeqsUpTo(_, _)
SeqsUpTo(S, n) ==
    IF n = 0 THEN {<<>>}
    ELSE LET shorter == SeqsUpTo(S, n - 1)
         IN  shorter \cup {Append(s, x) : s \in {t \in shorter : Len(t) = n - 1}, x \in S}

DocLists == SeqsUpTo(Chunks, MaxDocs)

\* texts the answer generator can return (opaque, non-empty)
Answers == {"a1", "a2"}

\* reasons carried by the RuntimeError of the fetcher
FetchErrors == {"tweepy not installed", "auth failed", "no tweets"}

\* what a grader chain returns: a dict whose "score" is one of Scores, or
\* an exception (unparsable output, or no "score" key)
Scores == {"yes", "no", "maybe"}
Raise == "raise"
GraderOut == Scores \cup {Raise}

NoError == "none"
NoGeneration == [kind |-> "absent", text |-> "none"]

\* ------------------------------------------------------------- graph state
\* variant of StateKeys in which the graph state also declares "error"
StateKeys_WithError == {"input", "generation", "documents", "retry_count", "error"}

\* keys declared by GraphState
StateKeys == {"input", "generation", "documents", "retry_count"}

\* state.get(k, d)
Get(st, k, d) == IF k \in DOMAIN st THEN st[k] ELSE d

\* a node's returned dict is written to the channels of the declared keys;
\* GraphState declares no "error" key, so the "error" entry that retrieve
\* returns after a failed fetch has no channel to be kept in
WriteState(st, upd) ==
    LET written == DOMAIN upd \cap StateKeys
    IN  [k \in DOMAIN st \cup written |-> IF k \in written THEN upd[k] ELSE st[k]]

\* ------------------------------------------------------------------- nodes
\* what client.search_tweets does for one keyword: a list of tweets, an
\* empty list, or an exception
SearchOutcomes == {"tweets", "empty", "error"}

\* the surroundings of one fetch: TWEEPY_AVAILABLE (set once at import; the
\* sessions explored run where tweepy is installed), whether
\* client.initialize() succeeds, and the search outcome of each keyword
\* (retrieve passes the single keyword [question])
FetchEnvs ==
    [tweepy : {TRUE}, auth : BOOLEAN, searches : [1..1 -> SearchOutcomes]]

\* what the indexing of fetched tweets yields: whether the splitter produces
\* any text chunk, and the ranked chunks the similarity search returns
IndexOutcomes ==
    {[texts |-> FALSE, hits |-> <<>>]}
    \cup {[texts |-> TRUE, hits |-> d] : d \in DocLists \ {<<>>}}

\* the indexing outcomes to tell apart in surroundings env: the index is
\* only built from a fetch that returned
IndexOutcomesIn(env) ==
    IF env.tweepy /\ env.auth THEN IndexOutcomes ELSE {[texts |-> FALSE, hits |-> <<>>]}

\* the for loop of twitter_detail_pipeline from keyword i on; a result is
\* named by the position of its keyword
RECURSIVE PipelineLoop(_, _, _)
PipelineLoop(searches, i, all_results) ==
    IF i > Len(searches) THEN all_results
    ELSE IF searches[i] = "tweets"
         THEN PipelineLoop(searches, i + 1, Append(all_results, i))
         ELSE PipelineLoop(searches, i + 1, all_results)

\* variant of twitter_detail_pipeline without the final check of all_results
twitter_detail_pipeline_NoFinalCheck(env) ==
    IF ~env.tweepy
    THEN [ok |-> FALSE, results |-> <<>>, reason |-> "tweepy not installed"]
    ELSE IF ~env.auth
         THEN [ok |-> FALSE, results |-> <<>>, reason |-> "auth failed"]
         ELSE [ok |-> TRUE, results |-> PipelineLoop(env.searches, 1, <<>>),
               reason |-> NoError]

\* twitter_detail_pipeline: its list of results, or the RuntimeError it raises
twitter_detail_pipeline(env) ==
    IF ~env.tweepy
    THEN [ok |-> FALSE, results |-> <<>>, reason |-> "tweepy not installed"]
    ELSE IF ~env.auth
         THEN [ok |-> FALSE, results |-> <<>>, reason |-> "auth failed"]
         ELSE LET all_results == PipelineLoop(env.searches, 1, <<>>)
              IN  IF all_results = <<>>
                  THEN [ok |-> FALSE, results |-> <<>>, reason |-> "no tweets"]
                  ELSE [ok |-> TRUE, results |-> all_results, reason |-> NoError]

\* DocumentLoader.get_retriever (with get_docs and create_vector_store): a
\* ranked list of chunks (possibly empty), or a RuntimeError with a reason
\* via names the way out taken: "raise", "no docs" (the if not docs branch),
\* "no store" (create_vector_store returned None) or "search"
get_retriever(env, index) ==
    LET fetched == twitter_detail_pipeline(env)
    IN  IF ~fetched.ok
        THEN [ok |-> FALSE, docs |-> <<>>, reason |-> fetched.reason, via |-> "raise"]
        ELSE IF fetched.results = <<>>
             THEN [ok |-> TRUE, docs |-> <<>>, reason |-> NoError, via |-> "no docs"]
             ELSE IF ~index.texts
                  THEN [ok |-> TRUE, docs |-> <<>>, reason |-> NoError, via |-> "no store"]
                  ELSE [ok |-> TRUE, docs |-> index.hits, reason |-> NoError,
                        via |-> "search"]

\* the results one call of get_retriever can have
FetchResults == {get_retriever(env, index) : env \in FetchEnvs, index \in IndexOutcomes}

\* variant of RetrieveKeyword that searches for the session's first question
RetrieveKeyword_Original(st) == 1

\* the keyword retrieve searches for
RetrieveKeyword(st) == st["input"]

\* variant of retrieve that starts the retry count afresh
retrieve_ResetRetry(st, res) ==
    LET question == st["input"]
    IN  IF res.ok
        THEN [documents |-> res.docs, input |-> question, retry_count |-> 0]
        ELSE [documents |-> <<>>, input |-> question, retry_count |-> 0,
              error |-> res.reason]

\* variant of retrieve that swallows the RuntimeError without keeping it
retrieve_NoErrorKey(st, res) ==
    LET question == st["input"]
        retry_count == Get(st, "retry_count", 0)
    IN  IF res.ok
        THEN [documents |-> res.docs, input |-> question, retry_count |-> retry_count]
        ELSE [documents |-> <<>>, input |-> question, retry_count |-> retry_count]

\* GraphNodes.retrieve: the dict it returns
retrieve(st, res) ==
    LET question == st["input"]
        retry_count == Get(st, "retry_count", 0)
    IN  IF res.ok
        THEN [documents |-> res.docs, input |-> question, retry_count |-> retry_count]
        ELSE [documents |-> <<>>, input |-> question, retry_count |-> retry_count,
              error |-> res.reason]

\* GraphNodes.generate calls the generator chain only past both early returns
GeneratorInvoked(st) ==
    /\ Get(st, "error", NoError) = NoError
    /\ st["documents"] # <<>>

\* variant of generate without the early return for empty documents
generate_NoEmptyCheck(st, text) ==
    LET question == st["input"]
        documents == st["documents"]
        retry_count == Get(st, "retry_count", 0)
        error_message == Get(st, "error", NoError)
        generation ==
            IF error_message # NoError
            THEN [kind |-> "apology", text |-> error_message]
            ELSE [kind |-> "answer", text |-> text]
    IN  [documents |-> documents, input |-> question, generation |-> generation,
         retry_count |-> retry_count]

\* GraphNodes.generate: the dict it returns, text being the chain's output
generate(st, text) ==
    LET question == st["input"]
        documents == st["documents"]
        retry_count == Get(st, "retry_count", 0)
        error_message == Get(st, "error", NoError)
        generation ==
            IF error_message # NoError
            THEN [kind |-> "apology", text |-> error_message]
            ELSE IF documents = <<>>
                 THEN [kind |-> "canned", text |-> "no relevant information"]
                 ELSE [kind |-> "answer", text |-> text]
    IN  [documents |-> documents, input |-> question, generation |-> generation,
         retry_count |-> retry_count]

\* variant of GradeLoop that puts each kept chunk in front (insert for append)
RECURSIVE GradeLoop_Prepend(_, _, _, _)
GradeLoop_Prepend(documents, scores, i, filtered_docs) ==
    IF i > Len(documents) THEN filtered_docs
    ELSE IF scores[i] = "yes"
         THEN GradeLoop_Prepend(documents, scores, i + 1, <<documents[i]>> \o filtered_docs)
         ELSE GradeLoop_Prepend(documents, scores, i + 1, filtered_docs)

\* variant of GradeLoop that stops one chunk early
RECURSIVE GradeLoop_SkipLast(_, _, _, _)
GradeLoop_SkipLast(documents, scores, i, filtered_docs) ==
    IF i >= Len(documents) THEN filtered_docs
    ELSE IF scores[i] = "yes"
         THEN GradeLoop_SkipLast(documents, scores, i + 1, Append(filtered_docs, documents[i]))
         ELSE GradeLoop_SkipLast(documents, scores, i + 1, filtered_docs)

\* the for loop of GraphNodes.grade_documents from position i on
RECURSIVE GradeLoop(_, _, _, _)
GradeLoop(documents, scores, i, filtered_docs) ==
    IF i > Len(documents) THEN filtered_docs
    ELSE IF scores[i] = "yes"
         THEN GradeLoop(documents, scores, i + 1, Append(filtered_docs, documents[i]))
         ELSE GradeLoop(documents, scores, i + 1, filtered_docs)

\* GraphNodes.grade_documents: the dict it returns, scores[i] being the
\* "score" the relevance grader gives for documents[i]
grade_documents(st, scores) ==
    LET question == st["input"]
        documents == st["documents"]
        retry_count == Get(st, "retry_count", 0)
    IN  IF documents = <<>>
        THEN [documents |-> <<>>, input |-> question, retry_count |-> retry_count]
        ELSE [documents |-> GradeLoop(documents, scores, 1, <<>>), input |-> question,
              retry_count |-> retry_count]

\* variant of transform_query that starts the new attempt without documents
transform_query_ClearDocuments(st, better_question) ==
    LET retry_count == Get(st, "retry_count", 0) + 1
    IN  [documents |-> <<>>, input |-> better_question, retry_count |-> retry_count]

\* GraphNodes.transform_query: the dict it returns
transform_query(st, better_question) ==
    LET documents == st["documents"]
        retry_count == Get(st, "retry_count", 0) + 1
    IN  [documents |-> documents, input |-> better_question, retry_count |-> retry_count]

\* ------------------------------------------------------------------- edges
\* variant of decide_to_generate that never asks for a rewrite
decide_to_generate_Always(st) == "generate"

\* EdgeGraph.decide_to_generate
decide_to_generate(st) ==
    IF st["documents"] = <<>> THEN "transform_query" ELSE "generate"

NoArgs == [input |-> 0, generation |-> NoGeneration, documents |-> <<>>]
NoEdge == [decision |-> "none", hall |-> "none", hallArgs |-> NoArgs,
           useCalled |-> FALSE, use |-> "none", useArgs |-> NoArgs]

\* variant of the edge that returns "useful" for every grounded answer,
\* whatever the answer evaluator says
grade_generation_IgnoreUsefulness(st, h, u) ==
    LET question == st["input"]
        documents == st["documents"]
        generation == st["generation"]
        hallArgs == [input |-> 0, generation |-> generation, documents |-> documents]
        useArgs == [input |-> question, generation |-> generation, documents |-> documents]
    IN  IF h = Raise
        THEN [decision |-> Raise, hall |-> h, hallArgs |-> hallArgs,
              useCalled |-> FALSE, use |-> "none", useArgs |-> NoArgs]
        ELSE IF h = "yes"
             THEN [decision |-> IF u = Raise THEN Raise ELSE "useful",
                   hall |-> h, hallArgs |-> hallArgs,
                   useCalled |-> TRUE, use |-> u, useArgs |-> useArgs]
             ELSE [decision |-> "not supported", hall |-> h, hallArgs |-> hallArgs,
                   useCalled |-> FALSE, use |-> "none", useArgs |-> NoArgs]

\* variant of the edge that calls the answer evaluator before it looks at
\* the hallucination grade
grade_generation_EvaluateFirst(st, h, u) ==
    LET question == st["input"]
        documents == st["documents"]
        generation == st["generation"]
        hallArgs == [input |-> 0, generation |-> generation, documents |-> documents]
        useArgs == [input |-> question, generation |-> generation, documents |-> documents]
    IN  IF h = Raise
        THEN [decision |-> Raise, hall |-> h, hallArgs |-> hallArgs,
              useCalled |-> FALSE, use |-> "none", useArgs |-> NoArgs]
        ELSE IF u = Raise
             THEN [decision |-> Raise, hall |-> h, hallArgs |-> hallArgs,
                   useCalled |-> TRUE, use |-> u, useArgs |-> useArgs]
             ELSE [decision |-> IF h # "yes" THEN "not supported"
                                ELSE IF u = "yes" THEN "useful" ELSE "not useful",
                   hall |-> h, hallArgs |-> hallArgs,
                   useCalled |-> TRUE, use |-> u, useArgs |-> useArgs]

\* EdgeGraph.grade_generation_v_documents_and_question: its decision and the
\* grader calls it makes; h and u are what the hallucination grader and the
\* answer evaluator return when called
grade_generation_v_documents_and_question(st, h, u) ==
    LET question == st["input"]
        documents == st["documents"]
        generation == st["generation"]
        hallArgs == [input |-> 0, generation |-> generation, documents |-> documents]
        useArgs == [input |-> question, generation |-> generation, documents |-> documents]
    IN  IF h = Raise
        THEN [decision |-> Raise, hall |-> h, hallArgs |-> hallArgs,
              useCalled |-> FALSE, use |-> "none", useArgs |-> NoArgs]
        ELSE IF h = "yes"
             THEN [decision |-> IF u = Raise THEN Raise
                                ELSE IF u = "yes" THEN "useful" ELSE "not useful",
                   hall |-> h, hallArgs |-> hallArgs,
                   useCalled |-> TRUE, use |-> u, useArgs |-> useArgs]
             ELSE [decision |-> "not supported", hall |-> h, hallArgs |-> hallArgs,
                   useCalled |-> FALSE, use |-> "none", useArgs |-> NoArgs]

\* variant of the path map that sends both decisions to generate
GradeDocumentsRoutes_AllGenerate ==
    [d \in {"transform_query", "generate"} |-> "generate"]

\* the path maps of the two add_conditional_edges calls
GradeDocumentsRoutes ==
    [d \in {"transform_query", "generate"} |->
        IF d = "transform_query" THEN "transform_query" ELSE "generate"]

\* variant of the path map that sends "not supported" to retrieve
GenerateRoutes_Retrieve ==
    [d \in {"not supported", "useful", "not useful"} |->
        IF d = "not supported" THEN "retrieve"
        ELSE IF d = "useful" THEN "END" ELSE "transform_query"]

\* variant of the path map with the targets of "useful" and "not useful" swapped
GenerateRoutes_Swapped ==
    [d \in {"not supported", "useful", "not useful"} |->
        IF d = "not supported" THEN "generate"
        ELSE IF d = "useful" THEN "transform_query" ELSE "END"]

GenerateRoutes ==
    [d \in {"not supported", "useful", "not useful"} |->
        IF d = "not supported" THEN "generate"
        ELSE IF d = "useful" THEN "END" ELSE "transform_query"]

\* ------------------------------------------------------------------- state
VARIABLES
    pc,            \* node run next: a node name, "END", or "failed" (exception)
    state,         \* the graph state dict
    firstFetch,    \* history: outcome of the first fetch: "none", "ok", "failed"
    lastError,     \* history: reason of the latest failed fetch, if any
    allRelevant,   \* history: every grading pass kept at least one chunk
    graders,       \* history: graders invoked so far
    genStreak,     \* history: generate runs since the last grading pass
    gradeIn,       \* history: documents given to the grading pass just completed
    gradeScores,   \* history: scores returned in the grading pass just completed
    lastEdge,      \* history: the edge evaluation after the generate just run
    ret,           \* history: the dict returned by the node just run
    trace,         \* history: the calls made by the node just run
    runs,          \* history: completed runs of retrieve, grade_documents, transform_query
    stage,         \* history: how far the session follows the straight path
    passAllYes,    \* history: the latest grading pass scored every chunk "yes"
    unfiltered,    \* history: documents is still the list the latest fetch returned
    callEnv,       \* the surroundings of a direct call of the fetch pipeline
    sessions,      \* two concurrent sessions: each one's next node, state dict
                   \* and whether its node is running
    frames,        \* the local variables of the node calls in progress
    solo           \* history: each session replayed alone on its own outcomes

\* the variables the workflow of one session does not touch
aux == <<callEnv, sessions, frames, solo>>

vars == <<pc, state, firstFetch, lastError, allRelevant,
          graders, genStreak, gradeIn, gradeScores, lastEdge,
          ret, trace, runs, stage, passAllYes, unfiltered, aux>>

NoEnv == [tweepy |-> TRUE, auth |-> TRUE, searches |-> <<>>]

AuxInit ==
    /\ callEnv = NoEnv
    /\ sessions = <<>>
    /\ frames = <<>>
    /\ solo = <<>>

NoRet == [none |-> TRUE]

\* keyword: the keyword given to the fetcher; found: what the fetcher found;
\* better_question: what the rewriter returned; chain: generator chain called
NoTrace == [keyword |-> 0, found |-> "none", better_question |-> 0, chain |-> FALSE]

\* the straight path of a session, told from what the collaborators return:
\* "start"; "fetched": the first fetch returned chunks; "graded": the first
\* grading pass kept a chunk; "ok1": the first answer was graded grounded and
\* useful; "ng1": the first answer was graded not grounded; "ok2": the second
\* answer was graded grounded and useful; "off": anything else
StageAfterRetrieve(stg, res) ==
    IF stg = "start" /\ res.ok /\ res.docs # <<>> THEN "fetched" ELSE "off"

StageAfterGrade(stg, scores) ==
    IF stg = "fetched" /\ (\E i \in 1..Len(scores) : scores[i] = "yes")
    THEN "graded" ELSE "off"

StageAfterGenerate(stg, h, u) ==
    IF stg = "graded" /\ h = "yes" /\ u = "yes" THEN "ok1"
    ELSE IF stg = "graded" /\ h = "no" THEN "ng1"
    ELSE IF stg = "ng1" /\ h = "yes" /\ u = "yes" THEN "ok2"
    ELSE "off"

\* what the fetcher found in surroundings env
FetcherFound(env) ==
    IF ~env.tweepy \/ ~env.auth THEN "denied"
    ELSE IF \E i \in DOMAIN env.searches : env.searches[i] = "tweets" THEN "items"
    ELSE IF \E i \in DOMAIN env.searches : env.searches[i] = "error" THEN "error"
    ELSE "zero"

Min(a, b) == IF a < b THEN a ELSE b

\* the question the session is started with; the question texts are
\* interchangeable, so one of them stands for the user's input
question0 == 1

\* some fetch of the session raised
fetchFailed == lastError # NoError

Init ==
    /\ pc = "retrieve"
    /\ state = WriteState([input |-> question0], [input |-> question0])
    /\ firstFetch = "none"
    /\ lastError = NoError
    /\ allRelevant = TRUE
    /\ graders = {}
    /\ genStreak = 0
    /\ gradeIn = <<>>
    /\ gradeScores = <<>>
    /\ lastEdge = NoEdge
    /\ ret = NoRet
    /\ trace = NoTrace
    /\ runs = [retrieve |-> 0, grade_documents |-> 0, transform_query |-> 0]
    /\ stage = "start"
    /\ passAllYes = FALSE
    /\ unfiltered = FALSE
    /\ AuxInit

\* node retrieve, then the edge retrieve -> grade_documents
Retrieve ==
    /\ pc = "retrieve"
    /\ \E env \in FetchEnvs : \E index \in IndexOutcomesIn(env) :
          LET res == get_retriever(env, index)
              upd == retrieve(state, res)
          IN  /\ state' = WriteState(state, upd)
              /\ ret' = upd
              /\ trace' = [NoTrace EXCEPT !.keyword = RetrieveKeyword(state),
                                          !.found = FetcherFound(env)]
              /\ firstFetch' = IF firstFetch # "none" THEN firstFetch
                               ELSE IF res.ok THEN "ok" ELSE "failed"
              /\ lastError' = IF res.ok THEN lastError ELSE res.reason
              /\ unfiltered' = res.ok
              /\ stage' = StageAfterRetrieve(stage, res)
    /\ pc' = "grade_documents"
    /\ runs' = [runs EXCEPT !.retrieve = @ + 1]
    /\ passAllYes' = FALSE
    /\ gradeIn' = <<>>
    /\ gradeScores' = <<>>
    /\ lastEdge' = NoEdge
    /\ UNCHANGED <<allRelevant, graders, genStreak, aux>>

\* node grade_documents, then the conditional edge decide_to_generate
GradeDocuments ==
    /\ pc = "grade_documents"
    /\ \E scores \in [1..Len(state["documents"]) -> Scores],
          graderRaises \in IF state["documents"] = <<>> THEN {FALSE} ELSE BOOLEAN :
          /\ graders' = IF state["documents"] = <<>> THEN graders
                        ELSE graders \cup {"relevance"}
          /\ IF graderRaises
             THEN /\ pc' = "failed"
                  /\ ret' = NoRet
                  /\ gradeIn' = <<>>
                  /\ gradeScores' = <<>>
                  /\ stage' = "off"
                  /\ UNCHANGED <<state, allRelevant, runs, passAllYes, unfiltered>>
             ELSE LET upd == grade_documents(state, scores)
                      st1 == WriteState(state, upd)
                  IN  /\ state' = st1
                      /\ ret' = upd
                      /\ gradeIn' = state["documents"]
                      /\ gradeScores' = scores
                      /\ stage' = StageAfterGrade(stage, scores)
                      /\ pc' = GradeDocumentsRoutes[decide_to_generate(st1)]
                      /\ allRelevant' = (allRelevant /\ st1["documents"] # <<>>)
                      /\ runs' = [runs EXCEPT !.grade_documents = @ + 1]
                      /\ passAllYes' = (\A i \in 1..Len(scores) : scores[i] = "yes")
                      /\ unfiltered' = (unfiltered /\ st1["documents"] = state["documents"])
    /\ genStreak' = 0
    /\ lastEdge' = NoEdge
    /\ trace' = NoTrace
    /\ UNCHANGED <<firstFetch, lastError, aux>>

\* node generate, then the conditional edge
\* grade_generation_v_documents_and_question
Generate ==
    /\ pc = "generate"
    /\ \E text \in Answers \cup {Raise}, h \in GraderOut :
       \E u \in IF h = "yes" THEN GraderOut ELSE {"none"} :
          IF text = Raise /\ GeneratorInvoked(state)
          THEN /\ pc' = "failed"
               /\ lastEdge' = NoEdge
               /\ ret' = NoRet
               /\ stage' = "off"
               /\ UNCHANGED <<state, graders, unfiltered>>
          ELSE LET upd == generate(state, text)
                   st1 == WriteState(state, upd)
                   edge == grade_generation_v_documents_and_question(st1, h, u)
               IN  /\ lastEdge' = edge
                   /\ ret' = upd
                   /\ stage' = IF edge.decision = Raise THEN "off"
                               ELSE StageAfterGenerate(stage, h, u)
                   /\ graders' = graders \cup {"groundedness"}
                                    \cup (IF edge.useCalled THEN {"usefulness"} ELSE {})
                   /\ IF edge.decision = Raise
                      THEN /\ pc' = "failed"
                           /\ UNCHANGED <<state, unfiltered>>
                      ELSE /\ pc' = GenerateRoutes[edge.decision]
                           /\ state' = st1
                           /\ unfiltered' = (unfiltered /\ st1["documents"] = state["documents"])
    /\ trace' = [NoTrace EXCEPT !.chain = GeneratorInvoked(state)]
    /\ genStreak' = Min(genStreak + 1, MaxStreak)
    /\ gradeIn' = <<>>
    /\ gradeScores' = <<>>
    /\ UNCHANGED <<firstFetch, lastError, allRelevant, runs, passAllYes, aux>>

\* node transform_query, then the edge transform_query -> retrieve
TransformQuery ==
    /\ pc = "transform_query"
    /\ Get(state, "retry_count", 0) < MaxRetry
    /\ \E better_question \in Questions, rewriteRaises \in BOOLEAN :
          IF rewriteRaises
          THEN /\ pc' = "failed"
               /\ ret' = NoRet
               /\ trace' = NoTrace
               /\ UNCHANGED <<state, runs, unfiltered>>
          ELSE LET upd == transform_query(state, better_question)
                   st1 == WriteState(state, upd)
               IN  /\ state' = st1
                   /\ ret' = upd
                   /\ trace' = [NoTrace EXCEPT !.better_question = better_question]
                   /\ pc' = "retrieve"
                   /\ runs' = [runs EXCEPT !.transform_query = @ + 1]
                   /\ unfiltered' = (unfiltered /\ st1["documents"] = state["documents"])
    /\ stage' = "off"
    /\ gradeIn' = <<>>
    /\ gradeScores' = <<>>
    /\ lastEdge' = NoEdge
    /\ UNCHANGED <<firstFetch, lastError, allRelevant, graders, genStreak, passAllYes, aux>>

Next ==
    \/ Retrieve
    \/ GradeDocuments
    \/ Generate
    \/ TransformQuery

Spec == Init /\ [][Next]_vars

\* ------------------------------------------------- the nodes called directly
\* a state dict as a node function can be handed: "input" and "documents"
\* present, "retry_count" (rc >= 0), "generation" and "error" optional
NodeDict(q, d, rc, g, e) ==
    LET keys == {"input", "documents"}
                  \cup (IF rc >= 0 THEN {"retry_count"} ELSE {})
                  \cup (IF g # NoGeneration THEN {"generation"} ELSE {})
                  \cup (IF e # NoError THEN {"error"} ELSE {})
    IN  [k \in keys |->
            IF k = "input" THEN q
            ELSE IF k = "documents" THEN d
            ELSE IF k = "retry_count" THEN rc
            ELSE IF k = "generation" THEN g
            ELSE e]

NodeStates ==
    {NodeDict(q, d, rc, g, e) :
        q \in Questions, d \in DocLists, rc \in -1..1,
        g \in {NoGeneration} \cup {[kind |-> "answer", text |-> a] : a \in Answers},
        e \in {NoError} \cup FetchErrors}

NodeInit ==
    /\ pc = "call"
    /\ state \in NodeStates
    /\ firstFetch = "none"
    /\ lastError = NoError
    /\ allRelevant = TRUE
    /\ graders = {}
    /\ genStreak = 0
    /\ gradeIn = <<>>
    /\ gradeScores = <<>>
    /\ lastEdge = NoEdge
    /\ ret = NoRet
    /\ trace = NoTrace
    /\ runs = [retrieve |-> 0, grade_documents |-> 0, transform_query |-> 0]
    /\ stage = "start"
    /\ passAllYes = FALSE
    /\ unfiltered = FALSE
    /\ AuxInit

NodeFrame ==
    UNCHANGED <<state, firstFetch, lastError, allRelevant, graders, genStreak, lastEdge,
                runs, stage, passAllYes, unfiltered, aux>>

\* retrieve(state) called once
CallRetrieve ==
    /\ pc = "call"
    /\ \E env \in FetchEnvs : \E index \in IndexOutcomesIn(env) :
          /\ ret' = retrieve(state, get_retriever(env, index))
          /\ trace' = [NoTrace EXCEPT !.keyword = RetrieveKeyword(state),
                                      !.found = FetcherFound(env)]
    /\ pc' = "done_retrieve"
    /\ UNCHANGED <<gradeIn, gradeScores>>
    /\ NodeFrame

\* grade_documents(state) called once, no grader call raising
CallGradeDocuments ==
    /\ pc = "call"
    /\ \E scores \in [1..Len(state["documents"]) -> Scores] :
          /\ ret' = grade_documents(state, scores)
          /\ gradeScores' = scores
    /\ gradeIn' = state["documents"]
    /\ trace' = NoTrace
    /\ pc' = "done_grade_documents"
    /\ NodeFrame

\* generate(state) called once, the chain not raising
CallGenerate ==
    /\ pc = "call"
    /\ \E text \in Answers : ret' = generate(state, text)
    /\ trace' = [NoTrace EXCEPT !.chain = GeneratorInvoked(state)]
    /\ pc' = "done_generate"
    /\ UNCHANGED <<gradeIn, gradeScores>>
    /\ NodeFrame

\* transform_query(state) called once, the rewriter not raising
CallTransformQuery ==
    /\ pc = "call"
    /\ \E better_question \in Questions :
          /\ ret' = transform_query(state, better_question)
          /\ trace' = [NoTrace EXCEPT !.better_question = better_question]
    /\ pc' = "done_transform_query"
    /\ UNCHANGED <<gradeIn, gradeScores>>
    /\ NodeFrame

NodeNext ==
    \/ CallRetrieve
    \/ CallGradeDocuments
    \/ CallGenerate
    \/ CallTransformQuery

NodeSpec == NodeInit /\ [][NodeNext]_vars

\* ------------------------------------------ the fetch pipeline called directly
\* the surroundings of a call with a list of up to MaxKeywords keywords
PipelineEnvs ==
    [tweepy : BOOLEAN, auth : BOOLEAN, searches : SeqsUpTo(SearchOutcomes, MaxKeywords)]

PipelineInit ==
    /\ pc = "call"
    /\ callEnv \in PipelineEnvs
    /\ sessions = <<>>
    /\ frames = <<>>
    /\ solo = <<>>
    /\ state = [input |-> question0]
    /\ firstFetch = "none"
    /\ lastError = NoError
    /\ allRelevant = TRUE
    /\ graders = {}
    /\ genStreak = 0
    /\ gradeIn = <<>>
    /\ gradeScores = <<>>
    /\ lastEdge = NoEdge
    /\ ret = NoRet
    /\ trace = NoTrace
    /\ runs = [retrieve |-> 0, grade_documents |-> 0, transform_query |-> 0]
    /\ stage = "start"
    /\ passAllYes = FALSE
    /\ unfiltered = FALSE

PipelineFrame ==
    UNCHANGED <<state, firstFetch, lastError, allRelevant, graders, genStreak, gradeIn,
                gradeScores, lastEdge, trace, runs, stage, passAllYes, unfiltered, aux>>

\* twitter_detail_pipeline(keywords) called once
CallPipeline ==
    /\ pc = "call"
    /\ ret' = [pipeline |-> twitter_detail_pipeline(callEnv)]
    /\ pc' = "done_pipeline"
    /\ PipelineFrame

\* DocumentLoader.get_retriever(keywords) called once
CallGetRetriever ==
    /\ pc = "call"
    /\ \E index \in IndexOutcomes : ret' = [retriever |-> get_retriever(callEnv, index)]
    /\ pc' = "done_get_retriever"
    /\ PipelineFrame

PipelineNext ==
    \/ CallPipeline
    \/ CallGetRetriever

PipelineSpec == PipelineInit /\ [][PipelineNext]_vars

\* ------------------------------------------------ two concurrent sessions
\* Two requests run through the one compiled workflow (app/server.py); the
\* GraphNodes, EdgeGraph and DocumentLoader objects are shared and are only
\* read after construction.  A node call is split in two steps, between
\* which the other session may run: the call (the node reads its state and
\* gets the results of its collaborators into its local variables) and the
\* return (the returned dict is written to the session's state and the
\* outgoing edge is evaluated).
Sessions == {1, 2}

\* variant of FrameOf that keeps the working data of a node call in one
\* attribute of the shared GraphNodes object
FrameOf_OnInstance(s) == 0

\* where the working data of the node call of session s lives: in the local
\* variables of that call
FrameOf(s) == s

\* what one fetch can return when two sessions run: at most one chunk
SessionFetchResults ==
    {get_retriever(e, index) :
        e \in FetchEnvs,
        index \in {i \in IndexOutcomes : Len(i.hits) <= 1}}

TwoInit ==
    /\ sessions = [s \in Sessions |->
                     [pc |-> "retrieve", state |-> [input |-> s], busy |-> FALSE]]
    /\ frames = [f \in {0} \cup Sessions |-> NoRet]
    /\ solo = [s \in Sessions |-> [pc |-> "retrieve", state |-> [input |-> s]]]
    /\ callEnv = NoEnv
    /\ pc = "sessions"
    /\ state = [input |-> question0]
    /\ firstFetch = "none"
    /\ lastError = NoError
    /\ allRelevant = TRUE
    /\ graders = {}
    /\ genStreak = 0
    /\ gradeIn = <<>>
    /\ gradeScores = <<>>
    /\ lastEdge = NoEdge
    /\ ret = NoRet
    /\ trace = NoTrace
    /\ runs = [retrieve |-> 0, grade_documents |-> 0, transform_query |-> 0]
    /\ stage = "start"
    /\ passAllYes = FALSE
    /\ unfiltered = FALSE

TwoFrame ==
    UNCHANGED <<pc, state, firstFetch, lastError, allRelevant, graders, genStreak, gradeIn,
                gradeScores, lastEdge, ret, trace, runs, stage, passAllYes, unfiltered,
                callEnv>>

\* session s starts node n; upd is the dict the node will return and
\* soloUpd the dict it returns in the replay of s alone
SessionCall(s, n, upd, soloUpd) ==
    /\ sessions[s].pc = n
    /\ ~sessions[s].busy
    /\ sessions' = [sessions EXCEPT ![s].busy = TRUE]
    /\ frames' = [frames EXCEPT ![FrameOf(s)] = upd]
    /\ solo' = [solo EXCEPT ![s].state = WriteState(@, soloUpd)]
    /\ TwoFrame

\* a collaborator of the node that session s runs raises: the session fails
SessionRaise(s) ==
    /\ sessions[s].pc \in {"grade_documents", "generate", "transform_query"}
    /\ sessions[s].pc = "grade_documents" => sessions[s].state["documents"] # <<>>
    /\ ~sessions[s].busy
    /\ sessions' = [sessions EXCEPT ![s].pc = "failed"]
    /\ solo' = [solo EXCEPT ![s].pc = "failed"]
    /\ UNCHANGED frames
    /\ TwoFrame

SessionRetrieveCall(s) ==
    \E res \in SessionFetchResults :
        SessionCall(s, "retrieve", retrieve(sessions[s].state, res),
                    retrieve(solo[s].state, res))

SessionGradeDocumentsCall(s) ==
    \E score \in Scores :
        LET scores == [i \in 1..1 |-> score]
        IN  SessionCall(s, "grade_documents", grade_documents(sessions[s].state, scores),
                        grade_documents(solo[s].state, scores))

SessionGenerateCall(s) ==
    \E text \in Answers :
        SessionCall(s, "generate", generate(sessions[s].state, text),
                    generate(solo[s].state, text))

SessionTransformQueryCall(s) ==
    /\ Get(sessions[s].state, "retry_count", 0) < MaxSessionRetry
    /\ \E better_question \in Questions :
          SessionCall(s, "transform_query",
                      transform_query(sessions[s].state, better_question),
                      transform_query(solo[s].state, better_question))

\* the node n of session s returns: its dict is written to the state of s
\* and the session moves to next (soloNext in the replay of s alone)
SessionReturn(s, n, next, soloNext) ==
    /\ sessions[s].pc = n
    /\ sessions[s].busy
    /\ sessions' = [sessions EXCEPT ![s] =
                      [pc |-> next, state |-> WriteState(@.state, frames[FrameOf(s)]),
                       busy |-> FALSE]]
    /\ solo' = [solo EXCEPT ![s].pc = soloNext]
    /\ UNCHANGED frames
    /\ TwoFrame

SessionRetrieveReturn(s) ==
    SessionReturn(s, "retrieve", "grade_documents", "grade_documents")

SessionGradeDocumentsReturn(s) ==
    LET st1 == WriteState(sessions[s].state, frames[FrameOf(s)])
    IN  SessionReturn(s, "grade_documents", GradeDocumentsRoutes[decide_to_generate(st1)],
                      GradeDocumentsRoutes[decide_to_generate(solo[s].state)])

SessionGenerateReturn(s) ==
    \E h \in Scores : \E u \in IF h = "yes" THEN Scores ELSE {"none"} :
        LET st1 == WriteState(sessions[s].state, frames[FrameOf(s)])
            edge == grade_generation_v_documents_and_question(st1, h, u)
            soloEdge == grade_generation_v_documents_and_question(solo[s].state, h, u)
        IN  SessionReturn(s, "generate", GenerateRoutes[edge.decision],
                          GenerateRoutes[soloEdge.decision])

SessionTransformQueryReturn(s) ==
    SessionReturn(s, "transform_query", "retrieve", "retrieve")

TwoNext ==
    \E s \in Sessions :
        \/ SessionRetrieveCall(s)
        \/ SessionRetrieveReturn(s)
        \/ SessionGradeDocumentsCall(s)
        \/ SessionGradeDocumentsReturn(s)
        \/ SessionGenerateCall(s)
        \/ SessionGenerateReturn(s)
        \/ SessionTransformQueryCall(s)
        \/ SessionTransformQueryReturn(s)
        \/ SessionRaise(s)

TwoSpec == TwoInit /\ [][TwoNext]_vars

\* the workflow runs its next node whenever there is one
FairSpec == Spec /\ WF_vars(Next)

TypeOK ==
    /\ pc \in {"retrieve", "grade_documents", "generate", "transform_query", "END", "failed"}
    /\ DOMAIN state \subseteq StateKeys
    /\ state["input"] \in Questions
    /\ Get(state, "retry_count", 0) \in 0..MaxRetry
    /\ Get(state, "documents", <<>>) \in DocLists

\* ------------------------------------------------------------------ claims
Retry == Get(state, "retry_count", 0)

Terminated == pc = "END"

\* the model stops exploring a session whose retry_count reached MaxRetry
Capped == pc = "transform_query" /\ Retry = MaxRetry

\* C1: in a session where every fetch succeeded and every grading pass kept
\* at least one relevant chunk, the number of query rewrites stays within the
\* fixed bound, and a terminated session holds a generation.
C1_RewritesBoundedWhenRelevant ==
    (~fetchFailed /\ allRelevant) =>
        /\ Retry <= RetryBound
        /\ (Terminated => Get(state, "generation", NoGeneration) # NoGeneration)

\* C2: retry_count never exceeds the retry bound 3 and never decreases.
C2_RetryCountBoundedMonotone ==
    /\ [](Retry <= RetryBound)
    /\ [][Get(state', "retry_count", 0) >= Retry]_vars

\* C3: once the number of rewrites has reached the bound 3, the loop is
\* never routed to transform_query again.
C3_NoRewriteAtBound ==
    [][Retry = RetryBound => pc' # "transform_query"]_vars

\* C4: the generate node never runs more than the bound 3 times in a row on
\* the same documents.
C4_GenerateStreakBounded == genStreak <= RetryBound

\* C5: every session in which no model call fails eventually terminates
\* (sessions the model stops exploring at MaxRetry are left aside).
C5_EventuallyTerminates == <>(Terminated \/ pc = "failed" \/ Capped)

\* C6: a terminated session in which a fetch failed ends with the apology
\* carrying the captured reason and with no documents.
C6_FetchFailureApology ==
    (Terminated /\ fetchFailed) =>
        /\ state["generation"] = [kind |-> "apology", text |-> lastError]
        /\ state["documents"] = <<>>

\* C7: when the first fetch failed, no grader is invoked in the session.
C7_NoGraderAfterFetchError ==
    firstFetch = "failed" => graders = {}

\* C8: after generate, a not grounded answer leads back to generate, a
\* grounded and useful one to END, a grounded and not useful one to
\* transform_query; a session is at END only with the latest answer judged
\* grounded in the current documents and useful.
C8_GenerateRouting ==
    /\ [][(pc = "generate" /\ pc' # "failed") =>
            /\ (lastEdge'.hall = "no" => pc' = "generate")
            /\ (lastEdge'.hall = "yes" /\ lastEdge'.use = "yes" => pc' = "END")
            /\ (lastEdge'.hall = "yes" /\ lastEdge'.use = "no" => pc' = "transform_query")
            /\ (pc' = "END" => lastEdge'.hall = "yes" /\ lastEdge'.use = "yes")]_vars
    /\ [](Terminated =>
            /\ lastEdge.hall = "yes"
            /\ lastEdge.use = "yes"
            /\ lastEdge.hallArgs.documents = state["documents"]
            /\ lastEdge.hallArgs.generation = state["generation"]
            /\ lastEdge.useArgs.generation = state["generation"])

C8_Witness ==
    /\ Terminated
    /\ genStreak >= 2
    /\ Retry >= 1
    /\ lastEdge.use = "yes"

\* C9: the answer evaluator is called only after the hallucination grader
\* returned "yes", and on the same answer and documents.
C9_UsefulnessOnlyWhenGrounded ==
    lastEdge.useCalled =>
        /\ lastEdge.hall = "yes"
        /\ lastEdge.useArgs.generation = lastEdge.hallArgs.generation
        /\ lastEdge.useArgs.documents = lastEdge.hallArgs.documents

C9_Witness ==
    /\ pc = "transform_query"
    /\ lastEdge.useCalled
    /\ lastEdge.use = "no"

\* positions whose chunk the relevance grader marked relevant
KeptPositions(scores) == {i \in 1..Len(scores) : scores[i] = "yes"}

\* out is the subsequence of in at the kept positions, in the order of in
IsFilter(in, scores, out) ==
    LET kept == KeptPositions(scores)
    IN  /\ Len(out) = Cardinality(kept)
        /\ \A i \in kept : out[Cardinality({j \in kept : j <= i})] = in[i]

\* C10: after grade_documents, documents is exactly the chunks of its input
\* that were marked relevant, in the order the retriever returned them: a
\* function of the per-chunk verdicts alone.
C10_GradeKeepsRelevantInOrder ==
    [][(pc = "grade_documents" /\ pc' # "failed") =>
          IsFilter(state["documents"], gradeScores', state'["documents"])]_vars

C10_Witness ==
    /\ pc = "generate"
    /\ Len(gradeIn) = 2
    /\ gradeIn[1] # gradeIn[2]
    /\ gradeScores = <<"no", "yes">>
    /\ state["documents"] = <<gradeIn[2]>>

\* C11: after grade_documents the loop goes to transform_query exactly when
\* the filtered documents are empty and to generate otherwise; when the first
\* grading pass keeps no chunk, transform_query runs next, makes retry_count
\* 1 and hands over to retrieve.
C11_GradeRouting ==
    /\ [][(pc = "grade_documents" /\ pc' # "failed") =>
            /\ (pc' = "transform_query" <=> state'["documents"] = <<>>)
            /\ (pc' = "generate" <=> state'["documents"] # <<>>)
            /\ ((\A i \in 1..Len(gradeScores') : gradeScores'[i] # "yes")
                    => pc' = "transform_query")]_vars
    /\ [][(pc = "transform_query" /\ pc' # "failed"
             /\ runs.grade_documents = 1 /\ genStreak = 0) =>
            (pc' = "retrieve" /\ Retry = 0 /\ Get(state', "retry_count", 0) = 1)]_vars

C11_Witness ==
    /\ pc = "retrieve"
    /\ Retry = 1
    /\ runs.grade_documents = 1
    /\ graders = {"relevance"}

\* C12: every transform_query step hands over to retrieve, which searches
\* for the rewritten question; transform_query never runs twice without a
\* retrieve in between.
C12_RewriteThenRetrieve ==
    /\ [][(pc = "transform_query" /\ pc' # "failed") =>
            (pc' = "retrieve" /\ state'["input"] = trace'.better_question)]_vars
    /\ [][(pc = "retrieve" /\ trace.better_question # 0) =>
            trace'.keyword = trace.better_question]_vars
    /\ [](pc = "transform_query" => runs.retrieve = runs.transform_query + 1)

C12_Witness ==
    /\ pc = "grade_documents"
    /\ runs.transform_query = 2
    /\ trace.keyword # question0

\* C14: generate run on empty documents with no error returns the canned
\* message and does not call the generator chain; the chain is never called
\* with an empty context.
C14_NoGenerationOnEmptyContext ==
    pc = "done_generate" =>
        /\ (state["documents"] = <<>> /\ Get(state, "error", NoError) = NoError) =>
              (ret["generation"].kind = "canned" /\ ~trace.chain)
        /\ (ret["generation"].kind = "answer" => state["documents"] # <<>>)
        /\ (trace.chain => state["documents"] # <<>>)

C14_Witness ==
    /\ pc = "done_generate"
    /\ state["documents"] = <<>>
    /\ "error" \notin DOMAIN state
    /\ ret["generation"].kind = "canned"

\* C13: a not grounded answer leads back to generate with the same documents
\* and question and with no retrieve, grade_documents or transform_query run;
\* when the first answer is not grounded and the second is grounded and
\* useful, the session ends with retrieve and grade_documents run once each
\* and retry_count still 0.
C13_RegenerateStep ==
    (pc = "generate" /\ pc' # "failed" /\ lastEdge'.hall = "no") =>
        /\ pc' = "generate"
        /\ state'["documents"] = state["documents"]
        /\ state'["input"] = state["input"]
        /\ runs' = runs
        /\ Get(state', "retry_count", 0) = Retry

C13_RegenerateSameContext ==
    /\ [][C13_RegenerateStep]_vars
    /\ [](stage = "ok2" =>
            /\ Terminated
            /\ runs = [retrieve |-> 1, grade_documents |-> 1, transform_query |-> 0]
            /\ Retry = 0)

C13_Witness ==
    /\ stage = "ok2"
    /\ Terminated
    /\ genStreak = 2

\* C15: a grader response whose score is neither "yes" nor "no" makes the
\* session fail; it is never taken as a verdict.
C15_MalformedVerdictFails ==
    pc # "failed" =>
        /\ \A i \in 1..Len(gradeScores) : gradeScores[i] \in {"yes", "no"}
        /\ lastEdge.hall \in {"yes", "no", "none"}
        /\ lastEdge.use \in {"yes", "no", "none"}

\* C16: retry_count is the number of completed transform_query runs: 0 at
\* the start, one more after transform_query, unchanged by the other nodes.
C16_RetryStep ==
    /\ (pc = "transform_query" /\ pc' # "failed") =>
            Get(state', "retry_count", 0) = Retry + 1
    /\ pc \in {"retrieve", "grade_documents", "generate"} =>
            Get(state', "retry_count", 0) = Retry

C16_RetryCountCountsRewrites ==
    /\ [](Retry = runs.transform_query)
    /\ [][C16_RetryStep]_vars

C16_Witness ==
    /\ pc = "generate"
    /\ Retry = 2
    /\ runs.transform_query = 2

\* C17: a grading pass that scores every chunk relevant returns its input
\* unchanged, and grading the survivors of any pass again (each of them
\* relevant) returns them unchanged.
C17_GradeStep ==
    (pc = "grade_documents" /\ pc' # "failed") =>
        /\ ((\A i \in 1..Len(gradeScores') : gradeScores'[i] = "yes")
               => state'["documents"] = state["documents"])
        /\ grade_documents(state', [i \in 1..Len(state'["documents"]) |-> "yes"])["documents"]
              = state'["documents"]

C17_GradingIdempotent == [][C17_GradeStep]_vars

C17_Witness ==
    /\ pc = "generate"
    /\ Len(gradeIn) = 2
    /\ gradeIn[1] # gradeIn[2]
    /\ gradeScores = <<"yes", "yes">>
    /\ state["documents"] = gradeIn

\* C18: when the first fetch returns chunks, all of them are graded relevant
\* and the first answer is grounded and useful, the session has ended with
\* retrieve, grade_documents and generate run once each, retry_count 0 and
\* documents the retrieved chunks.
C18_StraightPath ==
    (stage = "ok1" /\ passAllYes) =>
        /\ Terminated
        /\ runs = [retrieve |-> 1, grade_documents |-> 1, transform_query |-> 0]
        /\ genStreak = 1
        /\ Retry = 0
        /\ unfiltered
        /\ state["documents"] # <<>>

C18_Witness ==
    /\ stage = "ok1"
    /\ passAllYes
    /\ Terminated
    /\ Len(state["documents"]) = 2

\* C19: a retrieve whose fetch found zero items ends with empty documents
\* and with no error raised or recorded.
C19_ZeroItemsIsNotAnError ==
    (pc = "grade_documents" /\ trace.found = "zero") =>
        /\ state["documents"] = <<>>
        /\ "error" \notin DOMAIN ret

\* C20: retrieve always completes and hands over to grade_documents; after
\* a failed fetch it returns empty documents and the reason of the failure.
C20_RetrieveStep == pc = "retrieve" => pc' = "grade_documents"

C22_FailedFetchNotRetried ==
    firstFetch = "failed" => runs.retrieve <= 1 + RetryBound

\* C23: the question given to the answer evaluator (usefulness grader) is
\* the question the session was started with, rewrites or not.
C23_UsefulnessAgainstOriginalQuestion ==
    lastEdge.useCalled => lastEdge.useArgs.input = question0

\* C24: generate leaves input and documents unchanged, transform_query
\* leaves documents unchanged, retrieve and grade_documents leave input
\* unchanged.
C24_FrameStep ==
    /\ pc = "generate" =>
          /\ state'["documents"] = state["documents"]
          /\ state'["input"] = state["input"]
    /\ pc = "transform_query" => state'["documents"] = state["documents"]
    /\ pc \in {"retrieve", "grade_documents"} => state'["input"] = state["input"]

C24_QuestionAndDocumentsFrames == [][C24_FrameStep]_vars

C24_Witness ==
    /\ pc = "retrieve"
    /\ trace.better_question # 0
    /\ state["input"] # question0
    /\ state["documents"] # <<>>
    /\ "generation" \in DOMAIN state

\* C25: generate only ever starts with non-empty documents, so the canned
\* no-documents message is never produced and a session only ends with
\* non-empty documents.
C25_GenerateHasDocuments ==
    /\ pc = "generate" => state["documents"] # <<>>
    /\ Terminated => state["documents"] # <<>>
    /\ "generation" \in DOMAIN state =>
          /\ state["generation"].kind # "canned"
          /\ runs.grade_documents >= 1

C25_Witness ==
    /\ Terminated
    /\ Retry = 1
    /\ state["generation"].kind = "answer"
    /\ state["documents"] # <<>>

\* C26: whenever error is set in the graph state documents is empty, and
\* generate never returns the fetch-error apology over non-empty documents,
\* also when an earlier fetch of the session failed.
C26_NoApologyOverDocuments ==
    /\ Get(state, "error", NoError) # NoError => state["documents"] = <<>>
    /\ ("generation" \in DOMAIN state /\ state["generation"].kind = "apology")
          => state["documents"] = <<>>

C26_Witness ==
    /\ firstFetch = "failed"
    /\ lastError # NoError
    /\ "generation" \in DOMAIN state
    /\ state["generation"].kind = "answer"
    /\ state["documents"] # <<>>

\* the positions of the keywords whose search returned tweets, ascending
RECURSIVE YieldingKeywords(_, _)
YieldingKeywords(searches, n) ==
    IF n = 0 THEN <<>>
    ELSE IF searches[n] = "tweets"
         THEN Append(YieldingKeywords(searches, n - 1), n)
         ELSE YieldingKeywords(searches, n - 1)

C21_OtherSessionUntouched ==
    \A s \in Sessions :
        sessions'[s] # sessions[s] =>
            \A t \in Sessions \ {s} : sessions'[t] = sessions[t] /\ solo'[t] = solo[t]

C21_SessionsIndependent ==
    /\ [](pc = "sessions" =>
            \A s \in Sessions :
                ~sessions[s].busy =>
                    /\ sessions[s].state = solo[s].state
                    /\ sessions[s].pc = solo[s].pc)
    /\ [][pc = "sessions" => C21_OtherSessionUntouched]_vars

C21_Witness ==
    /\ pc = "sessions"
    /\ sessions[1].pc = "END"
    /\ sessions[2].busy
    /\ sessions[2].pc = "retrieve"
    /\ sessions[1].state["documents"] # <<>>
    /\ "documents" \in DOMAIN frames[2]
    /\ frames[2]["documents"] # <<>>
    /\ frames[2]["documents"] # sessions[1].state["documents"]
    /\ sessions[2].state["input"] # sessions[1].state["input"]

====
